---- MODULE Spec2Model ----
(***************************************************************************)
(* StockApp Melchisedech: the Express/Mongoose backend (server.js, in its  *)
(* version with purchases) as a state machine.  The shared state is the    *)
(* three MongoDB collections; every request handler is a sequence of       *)
(* atomic database operations separated by `await`, so handlers of         *)
(* different requests interleave between those operations.                 *)
(*                                                                         *)
(* Numbers: quantities are integers; prices are counted in hundredths, so  *)
(* the schema minimum 0.01 is 1 and 7.50 is 750.                           *)
(***************************************************************************)
EXTENDS Integers, FiniteSets, Sequences, TLC

\* ---------------------------------------------------------------- bounds
NumHandlers == 2      \* requests that can be in flight at once
MaxProducts == 2      \* products ever created (ObjectIds are never reused)
MaxDocs     == 2      \* Sale and Purchase documents ever constructed
MaxQuantity == 1      \* largest quantity a request body carries when requests interleave
MaxSeqQuantity == 2   \* largest quantity a request body carries when they run one at a time

\* ------------------------------------------------------ program constants
ProductMinQuantity == 0   \* quantity: { min: 0 }
MinUnitPrice       == 1   \* unitPrice / price: { min: 0.01 }, in hundredths
MinLedgerQuantity  == 1   \* quantitySold / quantityPurchased: { min: 1 }
MinStockLevelMin   == 0   \* minStockLevel: { min: 0 }

\* A field that req.body does not carry (JavaScript `undefined`); arithmetic
\* on it gives NaN, which every comparison answers false and every Number
\* path of a schema rejects, so NaN is represented by the same value.
undefined == 0 - 1000

Handlers   == 1..NumHandlers
ProductIds == 1..MaxProducts
Names      == {"A", "B"}

\* What request bodies carry.
QuantityArgs == {undefined} \cup (0..MaxQuantity)
PriceArgs    == {undefined, 0, 750}
StockArgs    == (0 - 1)..MaxQuantity
CreateBodies == [name : Names, quantity : StockArgs, price : {0, 500},
                 minStockLevel : {0 - 1, 0}]
UpdateBodies == [name : Names] \cup [quantity : StockArgs]

\* The same for the runs in which requests do not overlap.
SeqQuantityArgs == {undefined} \cup (0..MaxSeqQuantity)
SeqCreateBodies == [name : Names, quantity : (0 - 1)..MaxSeqQuantity,
                    price : {0, 500}, minStockLevel : {0 - 1, 0}]

VARIABLES
    products,       \* Product collection: _id -> document
    sales,          \* Sale collection (set of documents)
    purchases,      \* Purchase collection (set of documents)
    nextProductId,  \* next ObjectId of a Product
    nextDocId,      \* next ObjectId of a Sale or Purchase
    handler,        \* per in-flight request: position and local variables
    res,            \* the response sent last
    client,         \* a client that posts one request after the other
    unanswered,     \* GET requests whose handler returned without responding
    ui,             \* the browser client (script.js): view, alert, list rendering
    boot            \* start-up of the process: database connection, listening

vars == <<products, sales, purchases, nextProductId, nextDocId, handler, res,
          client, unanswered, ui, boot>>

\* what the handlers of the /api/products, /api/sales and /api/purchases
\* routes neither read nor write
outside == <<client, unanswered, ui, boot>>

\* ------------------------------------------------- JavaScript arithmetic
IsNumber(x) == x # undefined

\* the comparison with its operands exchanged
LtSwapped(a, b) == IsNumber(a) /\ IsNumber(b) /\ b < a

\* a < b
Lt(a, b) == IsNumber(a) /\ IsNumber(b) /\ a < b

\* a * b
Times(a, b) == IF IsNumber(a) /\ IsNumber(b) THEN a * b ELSE undefined

\* one unit taken whatever the quantity sold
SaleDecrementOne(q, n) == IF IsNumber(q) /\ IsNumber(n) THEN q - 1 ELSE undefined

\* product.quantity -= quantitySold
SaleDecrement(q, n) == IF IsNumber(q) /\ IsNumber(n) THEN q - n ELSE undefined

\* + on a quantity that arrived as a string: "1" + "2" is "12"
PurchaseIncrementConcat(q, n) ==
    IF IsNumber(q) /\ IsNumber(n) THEN 10 * q + n ELSE undefined

\* one unit added whatever the quantity purchased
PurchaseIncrementOne(q, n) == IF IsNumber(q) /\ IsNumber(n) THEN q + 1 ELSE undefined

\* product.quantity += quantityPurchased
PurchaseIncrement(q, n) == IF IsNumber(q) /\ IsNumber(n) THEN q + n ELSE undefined

\* ------------------------------------------------------ schema validators
Required(x) == x # undefined

MinValidator(x, m) == x = undefined \/ x >= m

ProductValid(doc) ==
    /\ Required(doc.quantity) /\ MinValidator(doc.quantity, ProductMinQuantity)
    /\ Required(doc.price) /\ MinValidator(doc.price, MinUnitPrice)
    /\ Required(doc.minStockLevel)
    /\ MinValidator(doc.minStockLevel, MinStockLevelMin)

\* product.save() validates the modified path only: quantity
QuantityValid(q) == Required(q) /\ MinValidator(q, ProductMinQuantity)

SaleValid(doc) ==
    /\ Required(doc.unitPrice) /\ MinValidator(doc.unitPrice, MinUnitPrice)
    /\ Required(doc.quantitySold)
    /\ MinValidator(doc.quantitySold, MinLedgerQuantity)
    /\ Required(doc.totalPrice)

PurchaseValid(doc) ==
    /\ Required(doc.unitPrice) /\ MinValidator(doc.unitPrice, MinUnitPrice)
    /\ Required(doc.quantityPurchased)
    /\ MinValidator(doc.quantityPurchased, MinLedgerQuantity)
    /\ Required(doc.totalPrice)

\* ------------------------------------------------------------- documents
\* Product.findById(id): the stored document with its _id
FindById(id) == [_id |-> id] @@ products[id]

\* no unique index on Product.name
NameTakenNever(name, except) == FALSE

\* the unique index on Product.name
NameTaken(name, except) ==
    \E id \in DOMAIN products : id # except /\ products[id].name = name

NewSale(product, quantitySold, unitPrice) ==
    [_id |-> nextDocId, productId |-> product._id, productName |-> product.name,
     unitPrice |-> unitPrice, quantitySold |-> quantitySold,
     totalPrice |-> Times(unitPrice, quantitySold)]

NewPurchase(product, quantityPurchased, unitPrice) ==
    [_id |-> nextDocId, productId |-> product._id, productName |-> product.name,
     unitPrice |-> unitPrice, quantityPurchased |-> quantityPurchased,
     totalPrice |-> Times(unitPrice, quantityPurchased)]

Idle == [pc |-> "idle"]

\* a new request is handled in the first free slot
Free(r) ==
    /\ handler[r].pc = "idle"
    /\ \A s \in Handlers : s < r => handler[s].pc # "idle"

Response(op, status, body) == [op |-> op, status |-> status, body |-> body]

Message(m) == [message |-> m]

\* `Stock insuffisant pour ${product.name}. Stock actuel: ${product.quantity}.`
StockInsuffisant(product) ==
    [message |-> "Stock insuffisant", name |-> product.name,
     quantity |-> product.quantity]

Init ==
    /\ products = <<>>
    /\ sales = {}
    /\ purchases = {}
    /\ nextProductId = 1
    /\ nextDocId = 1
    /\ handler = [r \in Handlers |-> Idle]
    /\ res = Response("none", 0, Message("none"))
    /\ client = [pc |-> "setup"]
    /\ unanswered = {}
    /\ ui = [view |-> "list", alert |-> "none", renders |-> 0, rows |-> {},
             options |-> {}, editing |-> 0, saleError |-> FALSE]
    /\ boot = [db |-> "connecting", listening |-> TRUE, exit |-> undefined]

\* ------------------------------------------------------ /api/products
\* POST /api/products
CreateProduct(body) ==
    /\ nextProductId <= MaxProducts
    /\ IF ~ProductValid(body)
       THEN /\ res' = Response("create", 400, Message("Donnees de produit invalides"))
            /\ UNCHANGED <<products, nextProductId>>
       ELSE IF NameTaken(body.name, 0)
       THEN /\ res' = Response("create", 409, Message("Un produit avec ce nom existe deja"))
            /\ UNCHANGED <<products, nextProductId>>
       ELSE /\ products' = (nextProductId :> body) @@ products
            /\ nextProductId' = nextProductId + 1
            /\ res' = Response("create", 201, [_id |-> nextProductId] @@ body)
    /\ UNCHANGED <<sales, purchases, nextDocId, handler>>

\* the document after $set of the body's fields
Updated(doc, body) ==
    [f \in DOMAIN doc |-> IF f \in DOMAIN body THEN body[f] ELSE doc[f]]

\* runValidators: the validators of the paths the update sets
UpdateValid(body) ==
    /\ "quantity" \in DOMAIN body => QuantityValid(body.quantity)
    /\ "price" \in DOMAIN body =>
          Required(body.price) /\ MinValidator(body.price, MinUnitPrice)
    /\ "minStockLevel" \in DOMAIN body =>
          /\ Required(body.minStockLevel)
          /\ MinValidator(body.minStockLevel, MinStockLevelMin)

\* PUT /api/products/:id
UpdateProduct(id, body) ==
    /\ IF ~UpdateValid(body)
       THEN /\ res' = Response("update", 400, Message("Erreur de mise a jour"))
            /\ UNCHANGED products
       ELSE IF id \notin DOMAIN products
       THEN /\ res' = Response("update", 404, Message("Produit non trouve"))
            /\ UNCHANGED products
       ELSE IF "name" \in DOMAIN body /\ NameTaken(body.name, id)
       THEN /\ res' = Response("update", 409, Message("Ce nom de produit est deja utilise"))
            /\ UNCHANGED products
       ELSE /\ products' = [products EXCEPT ![id] = Updated(@, body)]
            /\ res' = Response("update", 200, [_id |-> id] @@ products'[id])
    /\ UNCHANGED <<sales, purchases, nextProductId, nextDocId, handler>>

\* the collection without the document id
Without(id) == [i \in DOMAIN products \ {id} |-> products[i]]

\* a delete that also removes the ledger rows referring to the product
DeleteProductCascade(id) ==
    /\ IF id \notin DOMAIN products
       THEN /\ res' = Response("delete", 404, Message("Produit non trouve"))
            /\ UNCHANGED <<products, sales, purchases>>
       ELSE /\ products' = Without(id)
            /\ sales' = {d \in sales : d.productId # id}
            /\ purchases' = {d \in purchases : d.productId # id}
            /\ res' = Response("delete", 204, Message(""))
    /\ UNCHANGED <<nextProductId, nextDocId, handler>>

\* DELETE /api/products/:id
DeleteProduct(id) ==
    /\ IF id \notin DOMAIN products
       THEN /\ res' = Response("delete", 404, Message("Produit non trouve"))
            /\ UNCHANGED products
       ELSE /\ products' = Without(id)
            /\ res' = Response("delete", 204, Message(""))
    /\ UNCHANGED <<sales, purchases, nextProductId, nextDocId, handler>>

\* ------------------------------------------------------------ /api/sales
\* the handler without its `if (!product)`: reading product.quantity of null
\* throws a TypeError, which the catch answers with 500
SaleFindByIdNoNullCheck(r, productId, quantitySold, unitPrice) ==
    /\ Free(r)
    /\ IF productId \notin DOMAIN products
       THEN /\ res' = Response("sale", 500, Message("TypeError"))
            /\ UNCHANGED <<handler, nextDocId>>
       ELSE LET product == FindById(productId)
                newSale == NewSale(product, quantitySold, unitPrice)
            IN  IF Lt(product.quantity, quantitySold)
                THEN /\ res' = Response("sale", 400, StockInsuffisant(product))
                     /\ UNCHANGED <<handler, nextDocId>>
                ELSE IF ~SaleValid(newSale)
                THEN /\ res' = Response("sale", 500, Message("ValidationError"))
                     /\ UNCHANGED <<handler, nextDocId>>
                ELSE /\ nextDocId <= MaxDocs
                     /\ handler' = [handler EXCEPT ![r] =
                            [pc |-> "saleSave", product |-> product,
                             quantity |-> quantitySold, doc |-> newSale]]
                     /\ nextDocId' = nextDocId + 1
                     /\ UNCHANGED res
    /\ UNCHANGED <<products, sales, purchases, nextProductId>>

\* POST /api/sales, up to the first write: findById, the stock check, new Sale
\* and its validation (newSale.save() validates before it inserts)
SaleFindById(r, productId, quantitySold, unitPrice) ==
    /\ Free(r)
    /\ IF productId \notin DOMAIN products
       THEN /\ res' = Response("sale", 404, Message("Produit non trouve dans l'inventaire"))
            /\ UNCHANGED <<handler, nextDocId>>
       ELSE LET product == FindById(productId)
                newSale == NewSale(product, quantitySold, unitPrice)
            IN  IF Lt(product.quantity, quantitySold)
                THEN /\ res' = Response("sale", 400, StockInsuffisant(product))
                     /\ UNCHANGED <<handler, nextDocId>>
                ELSE IF ~SaleValid(newSale)
                THEN /\ res' = Response("sale", 500, Message("ValidationError"))
                     /\ UNCHANGED <<handler, nextDocId>>
                ELSE /\ nextDocId <= MaxDocs
                     /\ handler' = [handler EXCEPT ![r] =
                            [pc |-> "saleSave", product |-> product,
                             quantity |-> quantitySold, doc |-> newSale]]
                     /\ nextDocId' = nextDocId + 1
                     /\ UNCHANGED res
    /\ UNCHANGED <<products, sales, purchases, nextProductId>>

\* await newSale.save(): the insert
SaleSave(r) ==
    /\ handler[r].pc = "saleSave"
    /\ sales' = sales \cup {handler[r].doc}
    /\ handler' = [handler EXCEPT ![r].pc = "saleProductSave"]
    /\ UNCHANGED <<products, purchases, nextProductId, nextDocId, res>>

\* the stock update as an unconditional, unvalidated $inc of the stored quantity
SaleProductSaveInc(r) ==
    /\ handler[r].pc = "saleProductSave"
    /\ LET id == handler[r].product._id
       IN  IF id \notin DOMAIN products
           THEN /\ res' = Response("sale", 500, Message("DocumentNotFoundError"))
                /\ UNCHANGED products
           ELSE /\ products' = [products EXCEPT ![id].quantity = @ - handler[r].quantity]
                /\ res' = Response("sale", 201, handler[r].doc)
    /\ handler' = [handler EXCEPT ![r] = Idle]
    /\ UNCHANGED <<sales, purchases, nextProductId, nextDocId>>

\* product.quantity -= quantitySold; await product.save(); res.status(201)
\* save() validates quantity, then updates the stored document's quantity by
\* _id; it throws DocumentNotFoundError when no document has that _id.
SaleProductSave(r) ==
    /\ handler[r].pc = "saleProductSave"
    /\ LET product == handler[r].product
           quantity == SaleDecrement(product.quantity, handler[r].quantity)
       IN  IF ~QuantityValid(quantity)
           THEN /\ res' = Response("sale", 500, Message("ValidationError"))
                /\ UNCHANGED products
           ELSE IF product._id \notin DOMAIN products
           THEN /\ res' = Response("sale", 500, Message("DocumentNotFoundError"))
                /\ UNCHANGED products
           ELSE /\ products' = [products EXCEPT ![product._id].quantity = quantity]
                /\ res' = Response("sale", 201, handler[r].doc)
    /\ handler' = [handler EXCEPT ![r] = Idle]
    /\ UNCHANGED <<sales, purchases, nextProductId, nextDocId>>

\* -------------------------------------------------------- /api/purchases
\* POST /api/purchases, up to the first write
PurchaseFindById(r, productId, quantityPurchased, unitPrice) ==
    /\ Free(r)
    /\ IF productId \notin DOMAIN products
       THEN /\ res' = Response("purchase", 404, Message("Produit non trouve dans l'inventaire"))
            /\ UNCHANGED <<handler, nextDocId>>
       ELSE LET product == FindById(productId)
                newPurchase == NewPurchase(product, quantityPurchased, unitPrice)
            IN  IF ~PurchaseValid(newPurchase)
                THEN /\ res' = Response("purchase", 500, Message("ValidationError"))
                     /\ UNCHANGED <<handler, nextDocId>>
                ELSE /\ nextDocId <= MaxDocs
                     /\ handler' = [handler EXCEPT ![r] =
                            [pc |-> "purchaseSave", product |-> product,
                             quantity |-> quantityPurchased, doc |-> newPurchase]]
                     /\ nextDocId' = nextDocId + 1
                     /\ UNCHANGED res
    /\ UNCHANGED <<products, sales, purchases, nextProductId>>

\* await newPurchase.save(): the insert
PurchaseSave(r) ==
    /\ handler[r].pc = "purchaseSave"
    /\ purchases' = purchases \cup {handler[r].doc}
    /\ handler' = [handler EXCEPT ![r].pc = "purchaseProductSave"]
    /\ UNCHANGED <<products, sales, nextProductId, nextDocId, res>>

\* product.quantity += quantityPurchased; await product.save(); res.status(201)
PurchaseProductSave(r) ==
    /\ handler[r].pc = "purchaseProductSave"
    /\ LET product == handler[r].product
           quantity == PurchaseIncrement(product.quantity, handler[r].quantity)
       IN  IF ~QuantityValid(quantity)
           THEN /\ res' = Response("purchase", 500, Message("ValidationError"))
                /\ UNCHANGED products
           ELSE IF product._id \notin DOMAIN products
           THEN /\ res' = Response("purchase", 500, Message("DocumentNotFoundError"))
                /\ UNCHANGED products
           ELSE /\ products' = [products EXCEPT ![product._id].quantity = quantity]
                /\ res' = Response("purchase", 201, handler[r].doc)
    /\ handler' = [handler EXCEPT ![r] = Idle]
    /\ UNCHANGED <<sales, purchases, nextProductId, nextDocId>>

\* sort({ saleDate: -1 }) / sort({ purchaseDate: -1 }): the date is set when
\* the document is constructed, as its _id is, so newest first is largest
\* _id first
RECURSIVE NewestFirst(_)
NewestFirst(docs) ==
    IF docs = {} THEN <<>>
    ELSE LET newest == CHOOSE d \in docs : \A e \in docs : e._id <= d._id
         IN  <<newest>> \o NewestFirst(docs \ {newest})

\* GET /api/sales
ListSales == NewestFirst(sales)

\* GET /api/purchases
ListPurchases == NewestFirst(purchases)

\* GET /api/products: Product.find(), read here by _id
ListProducts == [id \in DOMAIN products |-> FindById(id)]

\* ------------------------------------------------------- specifications
\* Requests of every kind, their handlers interleaving at each await.
Next ==
    \/ \E body \in CreateBodies : CreateProduct(body) /\ UNCHANGED outside
    \/ \E id \in ProductIds, body \in UpdateBodies :
          UpdateProduct(id, body) /\ UNCHANGED outside
    \/ \E id \in ProductIds : DeleteProduct(id) /\ UNCHANGED outside
    \/ \E r \in Handlers, id \in ProductIds, n \in QuantityArgs, price \in PriceArgs :
          SaleFindById(r, id, n, price) /\ UNCHANGED outside
    \/ \E r \in Handlers : SaleSave(r) /\ UNCHANGED outside
    \/ \E r \in Handlers : SaleProductSave(r) /\ UNCHANGED outside
    \/ \E r \in Handlers, id \in ProductIds, n \in QuantityArgs, price \in PriceArgs :
          PurchaseFindById(r, id, n, price) /\ UNCHANGED outside
    \/ \E r \in Handlers : PurchaseSave(r) /\ UNCHANGED outside
    \/ \E r \in Handlers : PurchaseProductSave(r) /\ UNCHANGED outside

Spec == Init /\ [][Next]_vars

\* Products are created; after that only sales are posted, concurrently.
NextSales ==
    \/ \E body \in CreateBodies : CreateProduct(body) /\ UNCHANGED outside
    \/ \E r \in Handlers, id \in ProductIds, n \in QuantityArgs, price \in PriceArgs :
          SaleFindById(r, id, n, price) /\ UNCHANGED outside
    \/ \E r \in Handlers : SaleSave(r) /\ UNCHANGED outside
    \/ \E r \in Handlers : SaleProductSave(r) /\ UNCHANGED outside

SpecSales == Init /\ [][NextSales]_vars

\* Products are created; after that only purchases are posted, concurrently.
NextPurchases ==
    \/ \E body \in CreateBodies : CreateProduct(body) /\ UNCHANGED outside
    \/ \E r \in Handlers, id \in ProductIds, n \in QuantityArgs, price \in PriceArgs :
          PurchaseFindById(r, id, n, price) /\ UNCHANGED outside
    \/ \E r \in Handlers : PurchaseSave(r) /\ UNCHANGED outside
    \/ \E r \in Handlers : PurchaseProductSave(r) /\ UNCHANGED outside

SpecPurchases == Init /\ [][NextPurchases]_vars

\* Requests of every kind, one at a time: a request arrives only when no
\* handler is between two of its awaits.
NoneInFlight == \A r \in Handlers : handler[r].pc = "idle"

NextSeq ==
    \/ \E body \in SeqCreateBodies :
          NoneInFlight /\ CreateProduct(body) /\ UNCHANGED outside
    \/ \E id \in ProductIds, body \in UpdateBodies :
          NoneInFlight /\ UpdateProduct(id, body) /\ UNCHANGED outside
    \/ \E id \in ProductIds :
          NoneInFlight /\ DeleteProduct(id) /\ UNCHANGED outside
    \/ \E r \in Handlers, id \in ProductIds, n \in SeqQuantityArgs, price \in PriceArgs :
          NoneInFlight /\ SaleFindById(r, id, n, price) /\ UNCHANGED outside
    \/ \E r \in Handlers : SaleSave(r) /\ UNCHANGED outside
    \/ \E r \in Handlers : SaleProductSave(r) /\ UNCHANGED outside
    \/ \E r \in Handlers, id \in ProductIds, n \in SeqQuantityArgs, price \in PriceArgs :
          NoneInFlight /\ PurchaseFindById(r, id, n, price) /\ UNCHANGED outside
    \/ \E r \in Handlers : PurchaseSave(r) /\ UNCHANGED outside
    \/ \E r \in Handlers : PurchaseProductSave(r) /\ UNCHANGED outside

SpecSeq == Init /\ [][NextSeq]_vars

\* The round trip of section 8: products are created, the client reads one
\* of them (GET /api/products), posts a sale of n units of it, awaits the
\* response, posts a purchase of n units of it and awaits the response;
\* nothing else is requested meanwhile.
Await(status, next) ==
    /\ client' = [client EXCEPT !.pc = IF status = 201 THEN next ELSE "failed"]
    /\ UNCHANGED <<unanswered, ui, boot>>

NextRoundTrip ==
    \/ \E body \in SeqCreateBodies :
          client.pc = "setup" /\ CreateProduct(body) /\ UNCHANGED outside
    \/ \E id \in DOMAIN products, n \in 1..MaxSeqQuantity :
          /\ client.pc = "setup"
          /\ client' = [pc |-> "sale", product |-> ListProducts[id], n |-> n]
          /\ UNCHANGED <<products, sales, purchases, nextProductId, nextDocId,
                         handler, res, unanswered, ui, boot>>
    \/ \E r \in Handlers, price \in PriceArgs :
          /\ client.pc = "sale"
          /\ SaleFindById(r, client.product._id, client.n, price)
          /\ IF handler'[r].pc = "idle"
             THEN Await(res'.status, "purchase")
             ELSE /\ client' = [client EXCEPT !.pc = "saleSent"]
                  /\ UNCHANGED <<unanswered, ui, boot>>
    \/ \E r \in Handlers : SaleSave(r) /\ UNCHANGED outside
    \/ \E r \in Handlers : SaleProductSave(r) /\ Await(res'.status, "purchase")
    \/ \E r \in Handlers, price \in PriceArgs :
          /\ client.pc = "purchase"
          /\ PurchaseFindById(r, client.product._id, client.n, price)
          /\ IF handler'[r].pc = "idle"
             THEN Await(res'.status, "done")
             ELSE /\ client' = [client EXCEPT !.pc = "purchaseSent"]
                  /\ UNCHANGED <<unanswered, ui, boot>>
    \/ \E r \in Handlers : PurchaseSave(r) /\ UNCHANGED outside
    \/ \E r \in Handlers : PurchaseProductSave(r) /\ Await(res'.status, "done")

SpecRoundTrip == Init /\ [][NextRoundTrip]_vars

\* ------------------------------------------------------------ GET routing
\* A request path is the sequence of its characters, so that
\* String.prototype.startsWith is computed and not assumed.
PathApiProducts  == <<"/", "a", "p", "i", "/", "p", "r", "o", "d", "u", "c", "t", "s">>
PathApiSales     == <<"/", "a", "p", "i", "/", "s", "a", "l", "e", "s">>
PathApiPurchases == <<"/", "a", "p", "i", "/", "p", "u", "r", "c", "h", "a", "s", "e", "s">>
PathApiNowhere   == <<"/", "a", "p", "i", "/", "x">>
PathApiary       == <<"/", "a", "p", "i", "a", "r", "y">>
PathRoot         == <<"/">>
PathScript       == <<"/", "s", "c", "r", "i", "p", "t", ".", "j", "s">>
PathNowhere      == <<"/", "x">>

GetPaths == {PathApiProducts, PathApiSales, PathApiPurchases, PathApiNowhere,
             PathApiary, PathRoot, PathScript, PathNowhere}

\* '/api', the argument of req.url.startsWith
ApiPrefix == <<"/", "a", "p", "i">>

\* s.startsWith(prefix)
StartsWith(s, prefix) ==
    Len(s) >= Len(prefix) /\ SubSeq(s, 1, Len(prefix)) = prefix

\* express.static(__dirname): the files of the directory, '/' being its index.html
StaticFiles == (PathRoot :> "index.html") @@ (PathScript :> "script.js")

IndexHtml == [file |-> "index.html"]

\* a wildcard handler that answers the unmatched /api paths with 404
WildcardNotFound(path) ==
    IF StartsWith(path, ApiPrefix)
    THEN /\ res' = Response("get", 404, Message("Not found"))
         /\ UNCHANGED unanswered
    ELSE /\ res' = Response("get", 200, IndexHtml)
         /\ UNCHANGED unanswered

\* app.get('/*'): returns without responding and without calling next() when
\* the url starts with '/api', sends index.html otherwise
Wildcard(path) ==
    IF StartsWith(path, ApiPrefix)
    THEN /\ unanswered' = unanswered \cup {path}
         /\ UNCHANGED res
    ELSE /\ res' = Response("get", 200, IndexHtml)
         /\ UNCHANGED unanswered

\* GET path: the routes in the order of their registration
Get(path) ==
    /\ UNCHANGED <<products, sales, purchases, nextProductId, nextDocId, handler>>
    /\ IF path = PathApiProducts
       THEN /\ res' = Response("get", 200, [list |-> ListProducts])
            /\ UNCHANGED unanswered
       ELSE IF path = PathApiSales
       THEN /\ res' = Response("get", 200, [list |-> ListSales])
            /\ UNCHANGED unanswered
       ELSE IF path = PathApiPurchases
       THEN /\ res' = Response("get", 200, [list |-> ListPurchases])
            /\ UNCHANGED unanswered
       ELSE IF path \in DOMAIN StaticFiles
       THEN /\ res' = Response("get", 200, [file |-> StaticFiles[path]])
            /\ UNCHANGED unanswered
       ELSE Wildcard(path)

\* Products are created and GET requests of every path are made.
NextGet ==
    \/ \E body \in CreateBodies : CreateProduct(body) /\ UNCHANGED outside
    \/ \E path \in GetPaths : Get(path) /\ UNCHANGED <<client, ui, boot>>

SpecGet == Init /\ [][NextGet]_vars

\* ------------------------------------------------- browser client (script.js)
\* ui.view is the view displayed, ui.alert what alertContainer shows last,
\* ui.renders flips each time the product table is rendered, ui.rows are the
\* products of the table, ui.options the products the sale form offers,
\* ui.editing is productIdInput.value (0 for '') and ui.saleError whether
\* saleErrorDiv is displayed.

\* a client that takes every response for a success
OkAlways(status) == TRUE

\* response.ok
Ok(status) == status >= 200 /\ status <= 299

ShowNotification(u, type) == [u EXCEPT !.alert = type]

HandleFetchError(u) == ShowNotification(u, "error")

\* renderProductList, list being what GET /api/products answers
RenderProductList(u, list) ==
    LET v == [u EXCEPT !.renders = 1 - @, !.rows = DOMAIN list]
    IN  IF DOMAIN list = {} THEN v
        ELSE [v EXCEPT !.alert =
                 IF \E i \in DOMAIN list : list[i].quantity <= list[i].minStockLevel
                 THEN "lowStock" ELSE "none"]

\* populateSaleProductSelect: the products out of stock are disabled
PopulateSaleProductSelect(u, list) ==
    [u EXCEPT !.options = {i \in DOMAIN list : ~(list[i].quantity <= 0)},
              !.saleError = FALSE]

ShowView(u, viewName, list) ==
    LET v == [u EXCEPT !.view = viewName, !.alert = "none", !.saleError = FALSE]
    IN  IF viewName = "saleForm" THEN PopulateSaleProductSelect(v, list)
        ELSE IF viewName = "list" THEN RenderProductList(v, list)
        ELSE v

\* editProduct(id), 0 being null
EditProduct(u, id, list) ==
    ShowView([u EXCEPT !.editing = IF id \in DOMAIN list THEN id ELSE 0],
             "productForm", list)

\* the submit listeners after saveProductToDB / saveSaleToDB got a response
AfterSave(u, status, list) ==
    IF Ok(status)
    THEN ShowView(ShowNotification(u, "success"), "list", list)
    ELSE HandleFetchError(u)

\* the delete button after deleteProductFromDB got a response
AfterDelete(u, status, list) ==
    IF status = 204
    THEN RenderProductList(ShowNotification(u, "success"), list)
    ELSE HandleFetchError(u)

\* the check of the sale form before anything is sent
ClientSaleValid(productId, quantitySold, unitPriceSold) ==
    ~(\/ productId = 0
      \/ ~IsNumber(quantitySold) \/ quantitySold <= 0
      \/ ~IsNumber(unitPriceSold) \/ unitPriceSold <= 0)

server == <<products, sales, purchases, nextProductId, nextDocId, handler, res>>

ClickAdd ==
    /\ NoneInFlight
    /\ ui' = EditProduct(ui, 0, ListProducts)
    /\ UNCHANGED server

ClickEdit(id) ==
    /\ NoneInFlight /\ ui.view = "list" /\ id \in ui.rows
    /\ ui' = EditProduct(ui, id, ListProducts)
    /\ UNCHANGED server

ClickSell ==
    /\ NoneInFlight
    /\ ui' = ShowView(ui, "saleForm", ListProducts)
    /\ UNCHANGED server

ClickCancel ==
    /\ NoneInFlight /\ ui.view \in {"productForm", "saleForm"}
    /\ ui' = ShowView(ui, "list", ListProducts)
    /\ UNCHANGED server

\* productForm submit: PUT when the form edits a product, POST otherwise
SubmitProduct(body) ==
    /\ NoneInFlight /\ ui.view = "productForm"
    /\ IF ui.editing = 0 THEN CreateProduct(body) ELSE UpdateProduct(ui.editing, body)
    /\ ui' = AfterSave(ui, res'.status, ListProducts')

\* saleForm submit with fields the form refuses: nothing is sent
SubmitSaleInvalid(productId, quantitySold, unitPriceSold) ==
    /\ NoneInFlight /\ ui.view = "saleForm"
    /\ productId \in ui.options \cup {0}
    /\ ~ClientSaleValid(productId, quantitySold, unitPriceSold)
    /\ ui' = [ui EXCEPT !.saleError = TRUE]
    /\ UNCHANGED server

\* saleForm submit: POST /api/sales up to its response or its first await
SubmitSale(r, productId, quantitySold, unitPriceSold) ==
    /\ NoneInFlight /\ ui.view = "saleForm"
    /\ productId \in ui.options
    /\ ClientSaleValid(productId, quantitySold, unitPriceSold)
    /\ SaleFindById(r, productId, quantitySold, unitPriceSold)
    /\ IF handler'[r].pc = "idle"
       THEN ui' = AfterSave(ui, res'.status, ListProducts')
       ELSE ui' = [ui EXCEPT !.saleError = FALSE]

\* the response of the sale arrives
SaleResponded(r) ==
    /\ SaleProductSave(r)
    /\ ui' = AfterSave(ui, res'.status, ListProducts')

\* the delete button of a row, confirmed in the modal
ClickDelete(id) ==
    /\ NoneInFlight /\ ui.view = "list" /\ id \in ui.rows
    /\ DeleteProduct(id)
    /\ ui' = AfterDelete(ui, res'.status, ListProducts')

\* fetch rejects (network error): the request of a submit or of a delete
\* button does not reach the server
FetchFails ==
    /\ NoneInFlight
    /\ ui.view = "list" => ui.rows # {}
    /\ ui' = HandleFetchError(ui)
    /\ UNCHANGED server

\* One browser is used; another one deletes products meanwhile.
NextClient ==
    \/ ClickAdd /\ UNCHANGED <<client, unanswered, boot>>
    \/ \E id \in ProductIds : ClickEdit(id) /\ UNCHANGED <<client, unanswered, boot>>
    \/ ClickSell /\ UNCHANGED <<client, unanswered, boot>>
    \/ ClickCancel /\ UNCHANGED <<client, unanswered, boot>>
    \/ \E body \in CreateBodies :
          SubmitProduct(body) /\ UNCHANGED <<client, unanswered, boot>>
    \/ \E id \in ProductIds \cup {0}, n \in QuantityArgs, price \in PriceArgs :
          SubmitSaleInvalid(id, n, price) /\ UNCHANGED <<client, unanswered, boot>>
    \/ \E r \in Handlers, id \in ProductIds, n \in QuantityArgs, price \in PriceArgs :
          SubmitSale(r, id, n, price) /\ UNCHANGED <<client, unanswered, boot>>
    \/ \E r \in Handlers : SaleSave(r) /\ UNCHANGED outside
    \/ \E r \in Handlers : SaleResponded(r) /\ UNCHANGED <<client, unanswered, boot>>
    \/ \E id \in ProductIds : ClickDelete(id) /\ UNCHANGED <<client, unanswered, boot>>
    \/ FetchFails /\ UNCHANGED <<client, unanswered, boot>>
    \/ \E id \in ProductIds : DeleteProduct(id) /\ UNCHANGED outside

SpecClient == Init /\ [][NextClient]_vars

\* ------------------------------------------------------ stock corrections
\* Sales and purchases are posted one at a time; PUT /api/products/:id
\* requests that set the quantity arrive at any moment, also while a sale or
\* a purchase is between two of its awaits.
NextCorrection ==
    \/ \E body \in CreateBodies :
          NoneInFlight /\ CreateProduct(body) /\ UNCHANGED outside
    \/ \E id \in ProductIds, body \in [quantity : StockArgs] :
          UpdateProduct(id, body) /\ UNCHANGED outside
    \/ \E r \in Handlers, id \in ProductIds, n \in QuantityArgs, price \in PriceArgs :
          NoneInFlight /\ SaleFindById(r, id, n, price) /\ UNCHANGED outside
    \/ \E r \in Handlers : SaleSave(r) /\ UNCHANGED outside
    \/ \E r \in Handlers : SaleProductSave(r) /\ UNCHANGED outside
    \/ \E r \in Handlers, id \in ProductIds, n \in QuantityArgs, price \in PriceArgs :
          NoneInFlight /\ PurchaseFindById(r, id, n, price) /\ UNCHANGED outside
    \/ \E r \in Handlers : PurchaseSave(r) /\ UNCHANGED outside
    \/ \E r \in Handlers : PurchaseProductSave(r) /\ UNCHANGED outside

SpecCorrection == Init /\ [][NextCorrection]_vars

\* ------------------------------------------------------ start-up (server.js)
\* boot.db is the state of mongoose.connect's promise, boot.listening whether
\* app.listen was called, boot.exit the exit status of the process
\* (undefined while it runs). The module of Init listens when it is loaded;
\* server.js calls app.listen in the then of mongoose.connect.
InitServerJs ==
    /\ products = <<>>
    /\ sales = {}
    /\ purchases = {}
    /\ nextProductId = 1
    /\ nextDocId = 1
    /\ handler = [r \in Handlers |-> Idle]
    /\ res = Response("none", 0, Message("none"))
    /\ client = [pc |-> "setup"]
    /\ unanswered = {}
    /\ ui = [view |-> "list", alert |-> "none", renders |-> 0, rows |-> {},
             options |-> {}, editing |-> 0, saleError |-> FALSE]
    /\ boot = [db |-> "connecting", listening |-> FALSE, exit |-> undefined]

\* .then(() => { app.listen(PORT, ...) })
ConnectThen ==
    /\ boot.db = "connecting"
    /\ boot' = [boot EXCEPT !.db = "connected", !.listening = TRUE]
    /\ UNCHANGED <<server, client, unanswered, ui>>

\* a catch that logs the error and lets the process run
ConnectCatchLogOnly ==
    /\ boot.db = "connecting"
    /\ boot' = [boot EXCEPT !.db = "failed"]
    /\ UNCHANGED <<server, client, unanswered, ui>>

\* .catch(err => { console.error(...); process.exit(1) })
ConnectCatch ==
    /\ boot.db = "connecting"
    /\ boot' = [boot EXCEPT !.db = "failed", !.exit = 1]
    /\ UNCHANGED <<server, client, unanswered, ui>>

\* a request reaches a handler of a process that runs and listens
Listening == boot.listening /\ boot.exit = undefined

\* GET /api/test
GetApiTest ==
    /\ res' = Response("get", 200, Message("Bienvenue"))
    /\ UNCHANGED <<products, sales, purchases, nextProductId, nextDocId, handler>>

\* server.js: the connection, then the routes of server.js (it has none for
\* purchases), whose handlers are those of /api/products and /api/sales above.
NextServerJs ==
    \/ ConnectThen
    \/ ConnectCatch
    \/ Listening /\ GetApiTest /\ UNCHANGED outside
    \/ \E body \in CreateBodies : Listening /\ CreateProduct(body) /\ UNCHANGED outside
    \/ \E id \in ProductIds, body \in UpdateBodies :
          Listening /\ UpdateProduct(id, body) /\ UNCHANGED outside
    \/ \E id \in ProductIds : Listening /\ DeleteProduct(id) /\ UNCHANGED outside
    \/ \E r \in Handlers, id \in ProductIds, n \in QuantityArgs, price \in PriceArgs :
          Listening /\ SaleFindById(r, id, n, price) /\ UNCHANGED outside
    \/ \E r \in Handlers : Listening /\ SaleSave(r) /\ UNCHANGED outside
    \/ \E r \in Handlers : Listening /\ SaleProductSave(r) /\ UNCHANGED outside

SpecServerJs == InitServerJs /\ [][NextServerJs]_vars

\* ----------------------------------------------------------- properties
InFlight(r) == handler[r].pc # "idle"

SalesOf(id) == {d \in sales : d.productId = id}

PurchasesOf(id) == {d \in purchases : d.productId = id}

RECURSIVE TotalSold(_)
TotalSold(S) ==
    IF S = {} THEN 0
    ELSE LET d == CHOOSE x \in S : TRUE IN d.quantitySold + TotalSold(S \ {d})

RECURSIVE TotalPurchased(_)
TotalPurchased(S) ==
    IF S = {} THEN 0
    ELSE LET d == CHOOSE x \in S : TRUE IN d.quantityPurchased + TotalPurchased(S \ {d})

\* C1: every stored product has quantity >= 0, in every reachable state,
\* whatever requests were made and however their handlers interleaved.
QuantityNeverNegative ==
    \A id \in DOMAIN products : products[id].quantity >= 0

\* C1 witness: two sales of the same product have both been recorded and
\* have left it with no stock.
TwoSalesSoldOut ==
    \E id \in DOMAIN products :
        /\ products[id].quantity = 0
        /\ Cardinality(SalesOf(id)) = 2
        /\ NoneInFlight
        /\ res.op = "sale" /\ res.status = 201

\* C2 (the claim as stated): with only sales posted against the products, a
\* sale that answers 201 takes its units from stock that is there when it
\* writes, so the units of the successful sales never exceed the stock.
SalesNeverOversell ==
    [][\A r \in Handlers :
          (SaleProductSave(r) /\ res'.status = 201)
          => products[handler[r].product._id].quantity >= handler[r].quantity]_vars

\* C3 (the claim as stated): with only purchases posted against the products,
\* every purchase that answers 201 adds its units to the quantity stored when
\* it writes, so no earlier purchase's units are lost.
PurchasesLoseNoUpdate ==
    [][\A r \in Handlers :
          (PurchaseProductSave(r) /\ res'.status = 201)
          => products'[handler[r].product._id].quantity
               = products[handler[r].product._id].quantity + handler[r].quantity]_vars

\* C4 (the claim as stated): when a sale or purchase request ends in a failure,
\* no product has changed and neither ledger holds a row of that request.
FailedRequestLeavesNoTrace ==
    [][\A r \in Handlers :
          (/\ \/ \E id \in ProductIds, n \in QuantityArgs, price \in PriceArgs :
                    \/ SaleFindById(r, id, n, price)
                    \/ PurchaseFindById(r, id, n, price)
              \/ SaleProductSave(r)
              \/ PurchaseProductSave(r)
           /\ handler'[r].pc = "idle"
           /\ res'.status # 201)
          => /\ products' = products
             /\ InFlight(r) =>
                  /\ \A d \in sales' : d._id # handler[r].doc._id
                  /\ \A d \in purchases' : d._id # handler[r].doc._id]_vars

\* the quantity a product was created with, if only sales and purchases
\* changed it and each ledger row stands for an applied change
LedgerBalance(id) ==
    products[id].quantity + TotalSold(SalesOf(id)) - TotalPurchased(PurchasesOf(id))

\* C5 (the claim as stated): quantity = creation quantity + purchased - sold
\* in every state, that is, no step other than a manual update of the product
\* changes quantity + sold - purchased: a ledger row and its quantity change
\* appear together.
LedgerEffectAtomic ==
    [][\A id \in (DOMAIN products) \cap (DOMAIN products') :
          (\A body \in UpdateBodies : ~UpdateProduct(id, body))
          => LedgerBalance(id)' = LedgerBalance(id)]_vars

\* C6: a sale of n units of a stored product whose quantity is below n is
\* answered 400 with a message naming the product and the quantity read,
\* and changes neither the products nor the ledgers.
InsufficientStockRejected ==
    [][\A r \in Handlers, id \in DOMAIN products, n \in 0..MaxQuantity,
          price \in PriceArgs :
          (products[id].quantity < n /\ SaleFindById(r, id, n, price))
          => /\ res' = [op |-> "sale", status |-> 400,
                        body |-> [message |-> "Stock insuffisant",
                                  name |-> products[id].name,
                                  quantity |-> products[id].quantity]]
             /\ UNCHANGED <<products, sales, purchases, handler>>]_vars

\* C6 witness: a sale has been refused for insufficient stock.
InsufficientStockAnswered ==
    /\ res.op = "sale" /\ res.status = 400
    /\ res.body.message = "Stock insuffisant"
    /\ \E id \in DOMAIN products : products[id].name = res.body.name

\* C7: a sale of n >= 1 units at a price >= 0.01 of a stored product of
\* quantity q >= n, handled with no other request in flight, appends exactly
\* one Sale row (quantitySold n, unitPrice price, totalPrice price * n, the
\* product's name), sets the quantity to q - n and answers 201.
SaleAloneSucceeds ==
    [][\A r \in Handlers :
          /\ \A id \in DOMAIN products, n \in 1..MaxSeqQuantity, price \in PriceArgs :
                (/\ price >= MinUnitPrice
                 /\ products[id].quantity >= n
                 /\ SaleFindById(r, id, n, price))
                => /\ handler'[r].pc = "saleSave"
                   /\ handler'[r].product.quantity = products[id].quantity
                   /\ handler'[r].doc =
                        [_id |-> nextDocId, productId |-> id,
                         productName |-> products[id].name, unitPrice |-> price,
                         quantitySold |-> n, totalPrice |-> price * n]
          /\ SaleSave(r)
                => /\ handler[r].doc \notin sales
                   /\ sales' = sales \cup {handler[r].doc}
                   /\ products' = products
          /\ SaleProductSave(r)
                => LET id == handler[r].product._id
                   IN  /\ id \in DOMAIN products
                       /\ handler[r].doc \in sales
                       /\ products[id].quantity = handler[r].product.quantity
                       /\ products' = [products EXCEPT ![id].quantity =
                              products[id].quantity - handler[r].doc.quantitySold]
                       /\ sales' = sales
                       /\ res' = [op |-> "sale", status |-> 201,
                                  body |-> handler[r].doc]]_vars

\* C7 witness: a sale of 2 units at 7.50 has answered 201 with totalPrice
\* 15.00 and has taken the last 2 units of its product.
SaleOfLastUnitsAnswered ==
    /\ res.op = "sale" /\ res.status = 201
    /\ res.body.quantitySold = 2 /\ res.body.totalPrice = 1500
    /\ res.body.productId \in DOMAIN products
    /\ products[res.body.productId].quantity = 0
    /\ res.body \in sales

\* C8: a purchase of n >= 1 units at a price >= 0.01 of a stored product of
\* quantity q, handled with no other request in flight, appends exactly one
\* Purchase row (quantityPurchased n, totalPrice price * n), sets the quantity
\* to q + n, however large, and answers 201.
PurchaseAloneSucceeds ==
    [][\A r \in Handlers :
          /\ \A id \in DOMAIN products, n \in 1..MaxSeqQuantity, price \in PriceArgs :
                (/\ price >= MinUnitPrice
                 /\ PurchaseFindById(r, id, n, price))
                => /\ handler'[r].pc = "purchaseSave"
                   /\ handler'[r].product.quantity = products[id].quantity
                   /\ handler'[r].doc =
                        [_id |-> nextDocId, productId |-> id,
                         productName |-> products[id].name, unitPrice |-> price,
                         quantityPurchased |-> n, totalPrice |-> price * n]
          /\ PurchaseSave(r)
                => /\ handler[r].doc \notin purchases
                   /\ purchases' = purchases \cup {handler[r].doc}
                   /\ products' = products
          /\ PurchaseProductSave(r)
                => LET id == handler[r].product._id
                   IN  /\ id \in DOMAIN products
                       /\ handler[r].doc \in purchases
                       /\ products' = [products EXCEPT ![id].quantity =
                              products[id].quantity + handler[r].doc.quantityPurchased]
                       /\ purchases' = purchases
                       /\ res' = [op |-> "purchase", status |-> 201,
                                  body |-> handler[r].doc]]_vars

\* C8 witness: a second purchase of 2 units has answered 201 and the product
\* holds more than any request body can carry.
LargePurchaseAnswered ==
    /\ res.op = "purchase" /\ res.status = 201
    /\ res.body.quantityPurchased = 2
    /\ res.body.productId \in DOMAIN products
    /\ products[res.body.productId].quantity >= 2 * MaxSeqQuantity
    /\ Cardinality(PurchasesOf(res.body.productId)) = 2

\* C9: when the client has read a product of quantity q, sold n <= q units of
\* it (201) and then purchased n units of it (201), nothing else being
\* requested, the product's quantity is q again.
RoundTripRestoresQuantity ==
    client.pc = "done"
    => /\ client.product._id \in DOMAIN products
       /\ products[client.product._id].quantity = client.product.quantity

\* C9 witness: the round trip has been completed with n = 2.
RoundTripDone ==
    /\ client.pc = "done" /\ client.n = 2
    /\ Cardinality(SalesOf(client.product._id)) = 1
    /\ Cardinality(PurchasesOf(client.product._id)) = 1

\* C10 (the claim as stated): a sale or purchase of a stored product whose
\* quantity or unit price is missing or below its minimum is answered 400
\* and changes neither the products nor the ledgers.
ValidationErrorAnswered400 ==
    [][\A r \in Handlers, id \in DOMAIN products, n \in QuantityArgs,
          price \in PriceArgs :
          (/\ SaleFindById(r, id, n, price) \/ PurchaseFindById(r, id, n, price)
           /\ \/ n = undefined \/ n < MinLedgerQuantity
              \/ price = undefined \/ price < MinUnitPrice)
          => /\ res'.status = 400
             /\ UNCHANGED <<products, sales, purchases>>]_vars

\* C11: a sale or a purchase whose productId is not the _id of a stored product
\* (never created, or deleted before the handler reads it) is answered 404,
\* appends no row and changes no product.
UnknownProductAnswered404 ==
    [][\A r \in Handlers, id \in ProductIds \ DOMAIN products, n \in QuantityArgs,
          price \in PriceArgs :
          (SaleFindById(r, id, n, price) \/ PurchaseFindById(r, id, n, price))
          => /\ res'.status = 404
             /\ UNCHANGED <<products, sales, purchases, handler>>]_vars

\* C11 witness: a sale of a product that was created and then deleted has
\* been answered 404.
SaleOfDeletedProductAnswered ==
    /\ res.op = "sale" /\ res.status = 404
    /\ nextProductId > 1 /\ DOMAIN products = {}

UniqueNames ==
    \A i, j \in DOMAIN products : products[i].name = products[j].name => i = j

\* C12: creating a product under a stored product's name, and renaming a
\* product to another stored product's name, are answered 409 and change no
\* stored product; so no two stored products ever share a name.
DuplicateNameRejected ==
    [][/\ \A i \in DOMAIN products, quantity \in 0..MaxQuantity :
            CreateProduct([name |-> products[i].name, quantity |-> quantity,
                           price |-> 500, minStockLevel |-> 0])
            => res'.status = 409 /\ products' = products
       /\ \A a \in DOMAIN products, body \in [name : Names] :
            (/\ \E b \in DOMAIN products : b # a /\ products[b].name = body.name
             /\ UpdateProduct(a, body))
            => res'.status = 409 /\ products' = products
       /\ UniqueNames']_vars

\* C12 witness: with two products stored, a rename of one to the other's name
\* has been answered 409.
RenameToTakenNameAnswered ==
    /\ res.op = "update" /\ res.status = 409
    /\ Cardinality(DOMAIN products) = 2

Rows(list) == {list[i] : i \in DOMAIN list}

\* C13: no step modifies or removes a Sale or Purchase row, so GET /api/sales
\* keeps returning every row with its productName; and deleting a stored
\* product is answered 204 and removes it, whatever rows refer to it.
LedgerAppendOnly ==
    [][/\ sales \subseteq sales'
       /\ purchases \subseteq purchases'
       /\ Rows(ListSales) \subseteq Rows(ListSales')
       /\ Rows(ListPurchases) \subseteq Rows(ListPurchases')
       /\ \A id \in DOMAIN products :
            DeleteProduct(id)
            => res'.status = 204 /\ id \notin DOMAIN products']_vars

\* C13 witness: a product with a Sale row has been deleted (204) and GET
\* /api/sales still returns the row with the product's name.
DeletedProductKeepsHistory ==
    /\ res.op = "delete" /\ res.status = 204
    /\ \E i \in DOMAIN ListSales :
          /\ ListSales[i].productId \notin DOMAIN products
          /\ ListSales[i].productName \in Names

\* C14: a GET whose path starts with /api and matches no API route reaches
\* the wildcard handler, which returns without sending anything: no response
\* is sent at that step and none is sent for that request later; every other
\* GET path that matches no route and no static file is answered index.html.
UnmatchedGetRouted ==
    [][/\ \A path \in {PathApiNowhere, PathApiary} :
            Get(path) => res' = res /\ path \in unanswered'
       /\ Get(PathNowhere) => res' = [op |-> "get", status |-> 200,
                                      body |-> [file |-> "index.html"]]
       /\ unanswered \subseteq unanswered']_vars

UnmatchedGetsMade ==
    /\ unanswered = {PathApiNowhere, PathApiary}
    /\ res.op = "get" /\ res.body = [file |-> "index.html"]
    /\ DOMAIN products # {}

\* C15: the browser client leaves a form for the list view only when the
\* server answered the submit with a 2xx status, renders the list again after
\* a delete only when the server answered 204, and on any other status or a
\* network error shows an error notification and stays on the view it is on.
ClientFollowsResponse ==
    [][/\ \A body \in CreateBodies :
            (ui.view = "productForm" /\ SubmitProduct(body)) =>
               IF res'.status \in 200..299
               THEN ui'.view = "list"
               ELSE ui'.view = ui.view /\ ui'.alert = "error"
       /\ \A r \in Handlers :
            (/\ ui.view = "saleForm"
             /\ handler'[r].pc = "idle"
             /\ \/ \E id \in ui.options, n \in QuantityArgs, price \in PriceArgs :
                      SubmitSale(r, id, n, price)
                \/ SaleResponded(r)) =>
               IF res'.status \in 200..299
               THEN ui'.view = "list"
               ELSE ui'.view = ui.view /\ ui'.alert = "error"
       /\ (ui.view \in {"productForm", "saleForm"} /\ ui'.view = "list" /\ ~ClickCancel)
             => res'.status \in 200..299 /\ res'.op \in {"create", "update", "sale"}
       /\ \A id \in ProductIds :
            (ui.view = "list" /\ ClickDelete(id)) =>
               IF res'.status = 204
               THEN ui'.renders # ui.renders /\ ui'.rows = DOMAIN products'
               ELSE /\ ui'.renders = ui.renders /\ ui'.rows = ui.rows
                    /\ ui'.view = ui.view /\ ui'.alert = "error"
       /\ FetchFails =>
             /\ ui'.view = ui.view /\ ui'.alert = "error"
             /\ ui'.renders = ui.renders]_vars

\* a sale was refused, the client showed the error and stayed on the form
SaleRefusedOnForm ==
    /\ ui.view = "saleForm" /\ ui.alert = "error"
    /\ res.op = "sale" /\ res.status = 404

\* C16: a stock correction is not lost to an in-flight sale or purchase: when
\* a PUT has set the quantity of a product to m after a sale or a purchase of
\* n units read it, the quantity write of that sale or purchase leaves
\* m - n (m covering the n units sold) or m + n, never a value computed
\* from the quantity read before.
CorrectionSurvivesLedgerWrite ==
    [][\A r \in Handlers :
          (/\ handler[r].pc \in {"saleProductSave", "purchaseProductSave"}
           /\ handler'[r].pc = "idle"
           /\ res'.status = 201
           /\ handler[r].product._id \in DOMAIN products
           /\ products[handler[r].product._id].quantity # handler[r].product.quantity
           /\ handler[r].pc = "saleProductSave"
                 => ~(products[handler[r].product._id].quantity < handler[r].quantity))
          => products'[handler[r].product._id].quantity =
                IF handler[r].pc = "saleProductSave"
                THEN products[handler[r].product._id].quantity - handler[r].quantity
                ELSE products[handler[r].product._id].quantity + handler[r].quantity]_vars

====
